---- MODULE Spec2Model ----
(***************************************************************************)
(* A model of the documentation indexer of holoviz-mcp                     *)
(* (src/src/holoviz_mcp/docs_mcp/data.py and docs_mcp/server.py).          *)
(*                                                                         *)
(* The persistent collection is a set of entries with unique ids.  The     *)
(* indexer's coroutines run on one asyncio event loop: a coroutine runs    *)
(* atomically up to an await that really suspends.  data.py awaits only    *)
(* its log helpers, and those suspend only when a fastmcp Context is       *)
(* given (ctx.info / ctx.warning / ctx.error); with ctx = None they call   *)
(* the logging module and return without yielding.  Hence                  *)
(*   - update_index (server.py) runs index_documentation(ctx) in steps,    *)
(*     one per block of code between suspending log calls;                 *)
(*   - ensure_indexed calls index_documentation() without ctx, so that     *)
(*     whole rebuild is one atomic step.                                   *)
(* Paths and ids are sequences of tokens: the separators "/", "." and "_"  *)
(* are tokens of their own, every other token is a word without them.      *)
(***************************************************************************)
EXTENDS Integers, Sequences, FiniteSets, TLC

\* ---------------------------------------------------------------- bounds
\* number of distinct file contents a document can have
NumContents == 2
\* largest max_results a caller passes to search_pages
MaxResults == 2
\* largest distance the similarity query reports
MaxDistance == 2
\* largest number of lines of a document handed to a text function
MaxLines == 5

\* ------------------------------------------------------------- constants
\* n_results of the query in get_page
GetPageNResults == 3

None == "None"

Tasks == {"t1", "t2"}

\* config.docs.repositories, in iteration order
Repositories == <<"panel", "hvplot">>

Projects == {Repositories[i] : i \in DOMAIN Repositories}

Contents == 1..NumContents

\* Relative paths of the files a repository can hold.  The second and the
\* third differ only in "." against "_".
Paths ==
  { <<"doc", "/", "index", ".", "md">>,
    <<"doc", "/", "a", ".", "b", ".", "md">>,
    <<"doc", "/", "a", "_", "b", ".", "md">> }

\* ------------------------------------------------------- pure functions

RECURSIVE ReadablePath(_)
\* str(path).replace("/", "___").replace(".", "_")
ReadablePath(path) ==
  IF path = <<>> THEN <<>>
  ELSE LET h == Head(path)
           r == IF h = "/" THEN <<"_", "_", "_">>
                ELSE IF h = "." THEN <<"_">>
                ELSE <<h>>
       IN  r \o ReadablePath(Tail(path))

\* f"{project}___{readable_path}"
generate_doc_id(project, path) ==
  <<project, "_", "_", "_">> \o ReadablePath(path)

RECURSIVE Parts(_)
\* Path.parts: the components of a relative path, split at "/"
Parts(path) ==
  IF path = <<>> THEN <<>>
  ELSE IF Head(path) = "/" THEN <<<<>>>> \o Parts(Tail(path))
  ELSE LET rest == Parts(Tail(path))
       IN  IF rest = <<>> THEN <<<<Head(path)>>>>
           ELSE <<<<Head(path)>> \o Head(rest)>> \o Tail(rest)

\* Path.stem: the last component without its last suffix
Stem(path) ==
  LET parts == Parts(path)
      name == parts[Len(parts)]
      dots == {i \in 2..Len(name) : name[i] = "."}
  IN  IF dots = {} THEN name
      ELSE SubSeq(name, 1, (CHOOSE i \in dots : \A j \in dots : j <= i) - 1)

RECURSIVE Glob(_, _)
\* fnmatch of one path component against one pattern component; "*" and
\* "**" stand for any run of characters
Glob(name, pat) ==
  IF pat = <<>> THEN name = <<>>
  ELSE IF Head(pat) \in {"*", "**"}
    THEN \E k \in 0..Len(name) : Glob(SubSeq(name, k + 1, Len(name)), Tail(pat))
  ELSE name # <<>> /\ Head(name) = Head(pat) /\ Glob(Tail(name), Tail(pat))

\* PurePath.match with a relative pattern: the pattern's components are
\* matched one by one against the last components of the path, "**" being
\* one component like "*"
PathMatch(path, pattern) ==
  LET parts == Parts(path)
      pp == Parts(pattern)
      off == Len(parts) - Len(pp)
  IN  /\ off >= 0
      /\ \A i \in 1..Len(pp) : Glob(parts[off + i], pp[i])

\* repo_config.reference_patterns, the patterns of the configuration
\* template: doc/reference/**/*.md and examples/reference/**/*.ipynb
ReferencePatterns(project) ==
  { <<"doc", "/", "reference", "/", "**", "/", "*", ".", "md">>,
    <<"examples", "/", "reference", "/", "**", "/", "*", ".", "ipynb">> }

\* _is_reference_document for a path relative to its repository: true
\* when a configured pattern matches, and otherwise, whatever patterns are
\* configured, when "reference" is one of the path's components
is_reference_document(path, patterns) ==
  LET parts == Parts(path)
  IN  \/ \E pattern \in patterns : PathMatch(path, pattern)
      \/ \E i \in DOMAIN parts : parts[i] = <<"reference">>

\* The document dict process_file returns for one file.
process_file(project, path, content) ==
  [id |-> generate_doc_id(project, path), project |-> project,
   path |-> path, path_stem |-> Stem(path), content |-> content,
   is_reference |-> is_reference_document(path, ReferencePatterns(project))]

\* The files a repository can hold under its configured folders.
RepoPaths(project) ==
  IF project = "panel" THEN Paths ELSE {<<"doc", "/", "index", ".", "md">>}

\* What git and the file system give for one repository: whether the clone
\* or pull succeeded, and the files (all with one content) found under
\* repos_dir/<project>.  After a failed pull the old checkout is still there.
CloneOutcomes(project) ==
  [ok : BOOLEAN, files : {{}}, content : {1}]
  \cup [ok : BOOLEAN, files : SUBSET RepoPaths(project) \ {{}}, content : Contents]

\* clone_or_update_repo returns None on any Exception, the path otherwise
clone_or_update_repo(outcome) == IF outcome.ok THEN "repo_path" ELSE None

\* process_file of every file a repository can hold
ProcessedFiles ==
  [project \in Projects |->
     [p \in RepoPaths(project) |->
        [content \in Contents |-> process_file(project, p, content)]]]

\* extract_docs_from_repo: process_file of each file found in the checkout
extract_docs_from_repo(project, outcome) ==
  {ProcessedFiles[project][p][outcome.content] : p \in outcome.files}

\* RepoDocs with the result of the clone ignored: the checkout of a
\* repository whose pull failed is indexed all the same
RepoDocsIgnoringFailure(project, outcome) ==
  extract_docs_from_repo(project, outcome)

\* one iteration of the loop over config.repositories
RepoDocs(project, outcome) ==
  IF clone_or_update_repo(outcome) # None
    THEN extract_docs_from_repo(project, outcome)
    ELSE {}

Ids(docs) == {d.id : d \in docs}

\* HasDuplicateIds that never reports a collision
HasDuplicateIdsNever(docs) == FALSE

\* _validate_unique_ids raises when two documents of the batch share an id
HasDuplicateIds(docs) ==
  \E d, e \in docs : d # e /\ d.id = e.id

\* collection.add: an id already in the collection keeps its entry
CollectionAdd(st, docs) ==
  st \cup {d \in docs : d.id \notin Ids(st)}

\* ------------------------------------------------- index_documentation

\* ValidateResults without the return on an empty batch
ValidateResultsNoEarlyReturn(docs) ==
  IF HasDuplicateIds(docs) THEN {"dup_ids"} ELSE {"embed_failed", "go"}

\* Lines 589-597: the empty batch returns, a duplicate id raises, the
\* embedding model may raise; "go" stands for reaching the clear phase.
ValidateResults(docs) ==
  IF docs = {} THEN {"no_docs"}
  ELSE IF HasDuplicateIds(docs) THEN {"dup_ids"}
  ELSE {"embed_failed", "go"}

\* ClearResults that goes on to the add when the recreation has failed
ClearResultsGoingOn(st) ==
  { [store |-> {}, result |-> "go"],
    [store |-> st, result |-> "go"],
    [store |-> st, result |-> "panic"] }

\* ClearResults whose delete removes nothing: the clear goes on to the add
\* with the old entries still in the collection
ClearResultsKeeping(st) ==
  {[store |-> st, result |-> r] : r \in {"go", "recreate_failed", "panic"}}

\* Lines 599-618, the clear phase.  count/get/delete succeed and empty the
\* collection; or one of them raises an Exception and the collection is
\* dropped and recreated; or the recreation raises too and the error
\* propagates; or count raises a BaseException, which nothing catches.
ClearResults(st) ==
  { [store |-> {}, result |-> "go"],
    [store |-> st, result |-> "recreate_failed"],
    [store |-> {}, result |-> "recreate_failed"],
    [store |-> st, result |-> "panic"] }

\* Lines 620-643, the bulk add and the count() of the closing log line.
\* A failing add may have written any part of the batch before it raised.
AddResults(st, docs) ==
  { [store |-> CollectionAdd(st, docs), result |-> r] :
      r \in {"ok", "count_failed"} }
  \cup { [store |-> CollectionAdd(st, w), result |-> "add_failed"] :
          w \in (SUBSET docs) \ {docs} }

\* all_docs after the loop over the repositories
AllDocs(clones) ==
  UNION {RepoDocs(p, clones[p]) : p \in Projects}

FailedRepos(clones) ==
  {p \in Projects : clone_or_update_repo(clones[p]) = None}

\* index_documentation() without a Context: no await suspends, so the
\* whole call is one step from store st to one of these outcomes.
index_documentation(st, clones) ==
  LET docs == AllDocs(clones)
      v == ValidateResults(docs)
      afterClear == IF "go" \in v THEN ClearResults(st) ELSE {}
      afterAdd == UNION {AddResults(c.store, docs) :
                           c \in {x \in afterClear : x.result = "go"}}
  IN  {[store |-> st, result |-> r] : r \in v \ {"go"}}
      \cup {x \in afterClear : x.result # "go"}
      \cup afterAdd

\* the clone outcomes of one run, one per configured repository, each drawn
\* from the outcomes co[p] the environment can produce
AllClones(co) ==
  { [p \in Projects |-> IF p = Repositories[1] THEN a ELSE b] :
      a \in co[Repositories[1]], b \in co[Repositories[2]] }

\* ------------------------------------------------------------- queries

CountOutcomes == {"ok", "error", "panic"}

\* is_indexed with count() > 1 instead of count() > 0
is_indexed_above_one(st, c) ==
  [raised |-> c = "panic", value |-> c = "ok" /\ Cardinality(st) > 1]

\* is_indexed with count() >= 0 instead of count() > 0
is_indexed_nonneg(st, c) ==
  [raised |-> c = "panic", value |-> c = "ok"]

\* is_indexed: count() > 0; `except Exception` turns an ordinary failure of
\* count() into False, a BaseException (a panic of the store) propagates.
is_indexed(st, c) ==
  [raised |-> c = "panic", value |-> c = "ok" /\ Cardinality(st) > 0]

NoPath == <<>>

\* Matches with the project condition of the where clause dropped
MatchesAnyProject(st, project, path) ==
  {d \in st : path = NoPath \/ d.path = path}

\* Matches with the path condition of the where clause dropped
MatchesProjectOnly(st, project, path) ==
  {d \in st : project = None \/ d.project = project}

\* the entries a where clause selects; None / NoPath stand for no condition
Matches(st, project, path) ==
  {d \in st : (project = None \/ d.project = project)
               /\ (path = NoPath \/ d.path = path)}

\* collection.query: the n nearest matching entries, nearest first.  The
\* distances come from the embedding model, so any order is possible.
Ranked(M, n) ==
  LET k == IF Cardinality(M) < n THEN Cardinality(M) ELSE n
  IN  {s \in [1..k -> M] : \A i, j \in 1..k : i # j => s[i] # s[j]}

\* the Page built from an entry's metadata and document
Page(d) ==
  [project |-> d.project, path |-> d.path, content |-> d.content,
   is_reference |-> d.is_reference]

Pages(s) == [i \in 1..Len(s) |-> Page(s[i])]

\* search_pages whose query is not guarded: its failure propagates
search_pages_propagating(st, project, n) ==
  {[status |-> "ok", pages |-> Pages(s)] : s \in Ranked(Matches(st, project, NoPath), n)}
  \cup {[status |-> "query_failed", pages |-> <<>>], [status |-> "panic", pages |-> <<>>]}

\* search_pages after ensure_indexed: one page per query result; a query
\* that raises an Exception gives the empty list, and one that raises a
\* BaseException (a panic of the store's bindings) is not caught.
search_pages(st, project, n) ==
  {[status |-> "ok", pages |-> Pages(s)] : s \in Ranked(Matches(st, project, NoPath), n)}
  \cup {[status |-> "ok", pages |-> <<>>], [status |-> "panic", pages |-> <<>>]}

\* get_page after ensure_indexed: the query is not guarded, so its failure
\* propagates; more than one page and no page raise ValueError.
get_page(st, path, project) ==
  {[status |-> "query_failed", pages |-> <<>>]}
  \cup { IF Len(s) > 1 THEN [status |-> "ambiguous", pages |-> <<>>]
         ELSE IF Len(s) = 0 THEN [status |-> "not_found", pages |-> <<>>]
         ELSE [status |-> "ok", pages |-> Pages(s)] :
           s \in Ranked(Matches(st, project, path), GetPageNResults) }

\* projects a caller can name: the configured ones and one that is not
QueryProjects == Projects \cup {"bokeh"}

\* the calls that start with ensure_indexed, with their arguments
QueryOps ==
  [name : {"search_pages"}, project : QueryProjects \cup {None},
   path : {NoPath}, n : 1..MaxResults]
  \cup [name : {"get_page"}, project : QueryProjects,
        path : Paths, n : {GetPageNResults}]
  \cup [name : {"ensure_indexed"}, project : {None},
        path : {NoPath}, n : {0}]

\* a call of which only the name is known: its arguments are read by the
\* query alone, so they are drawn when the query runs
NameOp(nm) == [name |-> nm, project |-> None, path |-> NoPath, n |-> 0]

UpdateOp == NameOp("update_index")

RebuildOp == NameOp("index_documentation")

\* what the call returns once the index is there
Answer(o, st) ==
  IF o.name = "search_pages" THEN search_pages(st, o.project, o.n)
  ELSE IF o.name = "get_page" THEN get_page(st, o.path, o.project)
  ELSE {[status |-> "ok", pages |-> <<>>]}

\* ---------------------------------------------------------------- state

VARIABLES
  indexer,     \* server._indexer: "None" or "ready"
  initResult,  \* how the last DocumentationIndexer() ended
  corrupt,     \* the store's backing file is unreadable
  store,       \* the entries of the collection holoviz_docs
  pc,          \* per task: where its call stands
  op,          \* per task: the call and its arguments
  loc,         \* per task: all_docs and the loop state of its rebuild
  res,         \* per task: what the call returned or raised
  backup,      \* {store_dir}.bak: whether it exists and the entries it holds
  call,        \* the retrieval call applied to the index last
  out          \* what that call returned

vars == <<indexer, initResult, corrupt, store, pc, op, loc, res, backup, call, out>>

\* what the indexing and lookup calls of the tasks never touch
aux == <<backup, call, out>>

NoOp == NameOp("none")

NoLoc == [todo |-> <<>>, batch |-> {}, failed |-> {}]

\* no {store_dir}.bak on disk
NoBackup == [exists |-> FALSE, entries |-> {}]

NoCall ==
  [name |-> "none", component |-> <<>>, project |-> None, path |-> <<>>,
   content |-> TRUE, n |-> 0]

NoOut == [status |-> "none", pages |-> <<>>, names |-> <<>>]

NoRes == [status |-> "none", pages |-> <<>>, indexed |-> "n/a", rebuild |-> "none"]

\* The environment of a specification: the clone outcomes each repository
\* can have and the query calls the clients make.
FullEnv ==
  [clones |-> [p \in Projects |-> CloneOutcomes(p)], ops |-> QueryOps]

\* The environment of the specification with overlapping calls: every
\* repository holds doc/index.md, panel may hold doc/a.b.md as well, and
\* the clients search without a filter or call ensure_indexed.
ConcEnv ==
  [clones |-> [p \in Projects |->
      {c \in CloneOutcomes(p) :
         /\ <<"doc", "/", "index", ".", "md">> \in c.files
         /\ <<"doc", "/", "a", "_", "b", ".", "md">> \notin c.files
         /\ (p # Repositories[1] => c.content = 1)}],
   ops |-> {o \in QueryOps :
              \/ o.name = "ensure_indexed"
              \/ o.name = "search_pages" /\ o.project = None /\ o.n = MaxResults}]

\* A finished call is handed to its caller before any task takes its next
\* step: the hand-over touches nothing another task reads.
NoneDone == \A u \in Tasks : pc[u] # "done"

Init ==
  /\ indexer = None
  /\ initResult = "none"
  /\ corrupt \in BOOLEAN
  /\ store = {}
  /\ pc = [t \in Tasks |-> "idle"]
  /\ op = [t \in Tasks |-> NoOp]
  /\ loc = [t \in Tasks |-> NoLoc]
  /\ res = [t \in Tasks |-> NoRes]
  /\ backup = NoBackup
  /\ call = NoCall
  /\ out = NoOut

\* what a caller of index_documentation sees for its result r
CallStatus(r) ==
  IF r \in {"ok", "no_docs"} THEN "ok"
  ELSE IF r = "panic" THEN "panic"
  ELSE "error"

\* Construct with a recovery path that takes an interrupt for a corrupt
\* store: the store is wiped and the constructor returns
ConstructAbsorbingInterrupt ==
  /\ indexer = None
  /\ \E interrupt \in BOOLEAN :
       /\ initResult' = (IF interrupt THEN "interrupt" ELSE "ok")
       /\ indexer' = "ready"
       /\ corrupt' = FALSE
       /\ store' = (IF interrupt \/ corrupt THEN {} ELSE store)
  /\ UNCHANGED <<pc, op, loc, res, aux>>

\* get_indexer() -> DocumentationIndexer.__init__: PersistentClient and
\* get_or_create_collection are not guarded, so a corrupt store and an
\* interrupt both propagate and _indexer stays None.
Construct ==
  /\ indexer = None
  /\ \E interrupt \in BOOLEAN :
       /\ initResult' = (IF interrupt THEN "interrupt"
                         ELSE IF corrupt THEN "raised" ELSE "ok")
       /\ indexer' = (IF ~interrupt /\ ~corrupt THEN "ready" ELSE None)
  /\ UNCHANGED <<corrupt, store, pc, op, loc, res, aux>>

\* The process ends while no call is running; the store stays on disk and
\* its file may get damaged before the next start.
Restart ==
  /\ indexer = "ready"
  /\ \A t \in Tasks : pc[t] = "idle"
  /\ indexer' = None
  /\ initResult' = "none"
  /\ corrupt' \in BOOLEAN
  /\ UNCHANGED <<store, pc, op, loc, res, aux>>

\* update_index: index_documentation(ctx) up to its first suspending log
StartUpdateIndex(t) ==
  /\ indexer = "ready"
  /\ NoneDone
  /\ pc[t] = "idle"
  /\ pc' = [pc EXCEPT ![t] = "ingest"]
  /\ op' = [op EXCEPT ![t] = UpdateOp]
  /\ loc' = [loc EXCEPT ![t] = [todo |-> Repositories, batch |-> {}, failed |-> {}]]
  /\ UNCHANGED <<indexer, initResult, corrupt, store, res, aux>>

\* one iteration of the loop at lines 581-587
IngestRepo(t, env) ==
  /\ NoneDone
  /\ pc[t] = "ingest"
  /\ loc[t].todo # <<>>
  /\ LET p == Head(loc[t].todo) IN
     \E c \in env.clones[p] :
       loc' = [loc EXCEPT ![t] =
                 [todo |-> Tail(loc[t].todo),
                  batch |-> loc[t].batch \cup RepoDocs(p, c),
                  failed |-> loc[t].failed \cup
                     (IF clone_or_update_repo(c) = None THEN {p} ELSE {})]]
  /\ UNCHANGED <<indexer, initResult, corrupt, store, pc, op, res, aux>>

\* What _validate_unique_ids raises for a batch with a duplicate id.  It
\* is called without a Context, so the first log_exception raises
\* Exception("Found N duplicate document IDs"): the message holds the
\* number of duplicates and names no document.
validate_unique_ids_error(docs) ==
  [type |-> "Exception",
   count |-> Cardinality(docs) - Cardinality(Ids(docs)),
   named |-> {}]

\* lines 589-597
ValidateBatch(t) ==
  /\ NoneDone
  /\ pc[t] = "ingest"
  /\ loc[t].todo = <<>>
  /\ \E r \in ValidateResults(loc[t].batch) :
       IF r = "go"
         THEN /\ pc' = [pc EXCEPT ![t] = "clear"]
              /\ res' = res
         ELSE /\ pc' = [pc EXCEPT ![t] = "done"]
              /\ res' = [res EXCEPT ![t] =
                   [status |-> CallStatus(r), pages |-> <<>>,
                    indexed |-> "n/a", rebuild |-> r]]
  /\ UNCHANGED <<indexer, initResult, corrupt, store, op, loc, aux>>

\* lines 599-618
ClearCollection(t) ==
  /\ NoneDone
  /\ pc[t] = "clear"
  /\ \E x \in ClearResults(store) :
       /\ store' = x.store
       /\ IF x.result = "go"
            THEN /\ pc' = [pc EXCEPT ![t] = "add"]
                 /\ res' = res
            ELSE /\ pc' = [pc EXCEPT ![t] = "done"]
                 /\ res' = [res EXCEPT ![t] =
                      [status |-> CallStatus(x.result), pages |-> <<>>,
                       indexed |-> "n/a", rebuild |-> x.result]]
  /\ UNCHANGED <<indexer, initResult, corrupt, op, loc, aux>>

\* lines 620-646
AddDocuments(t) ==
  /\ NoneDone
  /\ pc[t] = "add"
  /\ \E x \in AddResults(store, loc[t].batch) :
       /\ store' = x.store
       /\ res' = [res EXCEPT ![t] =
            [status |-> CallStatus(x.result), pages |-> <<>>,
             indexed |-> "n/a", rebuild |-> x.result]]
  /\ pc' = [pc EXCEPT ![t] = "done"]
  /\ UNCHANGED <<indexer, initResult, corrupt, op, loc, aux>>

\* the calls named nm that the clients of env make
OpsNamed(nm, env) ==
  IF nm \in {o.name : o \in env.ops}
    THEN {o \in env.ops : o.name = nm}
    ELSE {NameOp(nm)}

\* A whole index_documentation() without a Context, then the answer of
\* the call named nm; indexed is what is_indexed returned before it, if it
\* was asked.  An exception of the rebuild propagates to the caller.
RebuildAndAnswer(t, nm, indexed, env) ==
  \E clones \in AllClones(env.clones) :
    \E x \in index_documentation(store, clones) :
      /\ store' = x.store
      /\ loc' = [loc EXCEPT ![t] =
           [todo |-> <<>>, batch |-> AllDocs(clones), failed |-> FailedRepos(clones)]]
      /\ pc' = [pc EXCEPT ![t] = "done"]
      /\ IF CallStatus(x.result) = "ok"
           THEN \E o \in OpsNamed(nm, env) : \E a \in Answer(o, x.store) :
                  /\ op' = [op EXCEPT ![t] = o]
                  /\ res' = [res EXCEPT ![t] =
                       [status |-> a.status, pages |-> a.pages,
                        indexed |-> indexed, rebuild |-> x.result]]
           ELSE /\ op' = [op EXCEPT ![t] = NameOp(nm)]
                /\ res' = [res EXCEPT ![t] =
                     [status |-> CallStatus(x.result), pages |-> <<>>,
                      indexed |-> indexed, rebuild |-> x.result]]

\* main() of data.py and direct callers: index_documentation() with no ctx
RunIndexDocumentation(t, env) ==
  /\ indexer = "ready"
  /\ NoneDone
  /\ pc[t] = "idle"
  /\ RebuildAndAnswer(t, "index_documentation", "n/a", env)
  /\ UNCHANGED <<indexer, initResult, corrupt, aux>>

\* search_pages, get_page and ensure_indexed up to the first suspension:
\* ensure_indexed asks is_indexed; an indexed store is queried at once;
\* otherwise the log call suspends when there is a Context, and without
\* one the rebuild and the query follow in the same step.
CallQuery(t, env) ==
  /\ indexer = "ready"
  /\ NoneDone
  /\ pc[t] = "idle"
  /\ \E nm \in {o.name : o \in env.ops}, ctx \in BOOLEAN, c \in CountOutcomes :
       LET ix == is_indexed(store, c) IN
       IF ix.raised THEN
         /\ pc' = [pc EXCEPT ![t] = "done"]
         /\ op' = [op EXCEPT ![t] = NameOp(nm)]
         /\ res' = [res EXCEPT ![t] =
              [status |-> "panic", pages |-> <<>>, indexed |-> "raised", rebuild |-> "none"]]
         /\ UNCHANGED <<store, loc>>
       ELSE IF ix.value THEN
         /\ pc' = [pc EXCEPT ![t] = "done"]
         /\ \E o \in OpsNamed(nm, env) : \E a \in Answer(o, store) :
              /\ op' = [op EXCEPT ![t] = o]
              /\ res' = [res EXCEPT ![t] =
                   [status |-> a.status, pages |-> a.pages,
                    indexed |-> "true", rebuild |-> "none"]]
         /\ UNCHANGED <<store, loc>>
       ELSE IF ctx THEN
         /\ pc' = [pc EXCEPT ![t] = "ensure_wait"]
         /\ op' = [op EXCEPT ![t] = NameOp(nm)]
         /\ UNCHANGED <<store, loc, res>>
       ELSE RebuildAndAnswer(t, nm, "false", env)
  /\ UNCHANGED <<indexer, initResult, corrupt, aux>>

\* ensure_indexed resumes after its log call: line 259, then the query
ResumeEnsure(t, env) ==
  /\ NoneDone
  /\ pc[t] = "ensure_wait"
  /\ RebuildAndAnswer(t, op[t].name, "false", env)
  /\ UNCHANGED <<indexer, initResult, corrupt, aux>>

\* the caller takes the result; the task is free for the next call
Finish(t) ==
  /\ pc[t] = "done"
  /\ pc' = [pc EXCEPT ![t] = "idle"]
  /\ op' = [op EXCEPT ![t] = NoOp]
  /\ loc' = [loc EXCEPT ![t] = NoLoc]
  /\ res' = [res EXCEPT ![t] = NoRes]
  /\ UNCHANGED <<indexer, initResult, corrupt, store, aux>>

\* the steps of task t in environment env
TaskStep(t, env) ==
  \/ StartUpdateIndex(t)
  \/ IngestRepo(t, env)
  \/ ValidateBatch(t)
  \/ ClearCollection(t)
  \/ AddDocuments(t)
  \/ RunIndexDocumentation(t, env)
  \/ CallQuery(t, env)
  \/ ResumeEnsure(t, env)
  \/ Finish(t)

\* one client: every call ends before the next one starts
Next ==
  \/ Construct
  \/ Restart
  \/ TaskStep("t1", FullEnv)

Spec == Init /\ [][Next]_vars

\* two clients whose calls overlap on the event loop
ConcNext ==
  \/ Construct
  \/ Restart
  \/ \E t \in Tasks : TaskStep(t, ConcEnv)

ConcSpec == Init /\ [][ConcNext]_vars

\* ============================================ retrieval on a built index

\* projects of the index the retrieval calls are applied to
IndexProjects == {"hvplot", "panel", "panel_material_ui"}

\* Relative paths of that index: two reference pages whose stems differ in
\* case only, and a page outside reference/ with the stem of the first.
IndexPaths ==
  { <<"reference", "/", "Button", ".", "md">>,
    <<"reference", "/", "button", ".", "md">>,
    <<"doc", "/", "Button", ".", "md">> }

IndexDocs ==
  {process_file(p, f, c) : p \in IndexProjects, f \in IndexPaths, c \in Contents}

\* the indexes of one or two documents a successful rebuild can leave
IndexContents ==
  {st \in {{a, b} : a \in IndexDocs, b \in IndexDocs} : ~HasDuplicateIds(st)}

\* distances the similarity query reports
Distances == 0..MaxDistance

\* content=False: the page carries no content
NoContent == 0

\* n_results of the query in search_get_reference_guide
RefGuideNResults == 1000

\* relevance_score = 1.0 - float(distance)
relevance_score(distance) == 1 - distance

\* collection.query with its distances: up to n of the matching entries,
\* each with the distance the store reports for it
QueryResults(M, n) ==
  UNION { { [i \in 1..Len(s) |-> [doc |-> s[i], distance |-> ds[i]]] :
              ds \in [1..Len(s) -> Distances] } : s \in Ranked(M, n) }

\* ScoredPage that never carries the stored document
ScoredPageWithoutContent(d, content, score) ==
  [project |-> Page(d).project, path |-> Page(d).path, content |-> NoContent,
   is_reference |-> Page(d).is_reference, relevance_score |-> score]

\* the Page of one query result with its content and its relevance_score
ScoredPage(d, content, score) ==
  [project |-> Page(d).project, path |-> Page(d).path,
   content |-> IF content THEN Page(d).content ELSE NoContent,
   is_reference |-> Page(d).is_reference, relevance_score |-> score]

\* search -> search_pages with the content flag and the distances: one
\* page per query result, in the order of the results
search(st, project, content, n) ==
  { [status |-> "ok",
     pages |-> [i \in 1..Len(q) |->
                  ScoredPage(q[i].doc, content, relevance_score(q[i].distance))]] :
      q \in QueryResults(Matches(st, project, NoPath), n) }
  \cup {[status |-> "ok", pages |-> <<>>], [status |-> "panic", pages |-> <<>>]}

\* RefMatches without the is_reference condition
RefMatchesAnyPage(st, component, project) ==
  {d \in st : (project = None \/ d.project = project) /\ d.path_stem = component}

\* the where clause of search_get_reference_guide
RefMatches(st, component, project) ==
  {d \in st : /\ (project = None \/ d.project = project)
              /\ d.path_stem = component
              /\ d.is_reference}

\* search_get_reference_guide that raises as get_page does when the query
\* finds nothing
search_get_reference_guide_raising(st, component, project, content) ==
  IF RefMatches(st, component, project) = {}
    THEN {[status |-> "not_found", pages |-> <<>>]}
    ELSE { [status |-> "ok",
            pages |-> [i \in 1..Len(s) |-> ScoredPage(s[i], content, 1)]] :
             s \in Ranked(RefMatches(st, component, project), RefGuideNResults) }

\* search_get_reference_guide after ensure_indexed: the query is not
\* guarded; a result whose project or stem is not the one asked for makes
\* log_exception raise; every page gets the relevance_score 1.0
search_get_reference_guide(st, component, project, content) ==
  {[status |-> "query_failed", pages |-> <<>>]}
  \cup { IF \E i \in 1..Len(s) :
              \/ (project # None /\ s[i].project # project)
              \/ s[i].path_stem # component
           THEN [status |-> "error", pages |-> <<>>]
           ELSE [status |-> "ok",
                 pages |-> [i \in 1..Len(s) |-> ScoredPage(s[i], content, 1)]] :
           s \in Ranked(RefMatches(st, component, project), RefGuideNResults) }

\* str(project).replace("_", "-") on the project names of the index
Hyphenated(project) ==
  IF project = "panel_material_ui" THEN "panel-material-ui" ELSE project

\* the names list_projects can meet, in the order sorted() gives them
NameOrder == <<"hvplot", "panel", "panel-material-ui", "panel_material_ui">>

Rank(name) == CHOOSE i \in DOMAIN NameOrder : NameOrder[i] = name

\* sorted(projects)
Sorted(names) ==
  CHOOSE s \in [1..Cardinality(names) -> names] :
    \A i, j \in DOMAIN s : i < j => Rank(s[i]) < Rank(s[j])

\* list_projects after ensure_indexed: the hyphenated project names of
\* the metadata, sorted; the empty list when collection.get raises
list_projects(st) ==
  { [status |-> "ok", names |-> Sorted({Hyphenated(d.project) : d \in st})],
    [status |-> "ok", names |-> <<>>] }

\* components a caller asks for: the stems of the index, the empty name and
\* a name no page has
Components == {<<"Button">>, <<"button">>, <<>>, <<"Slider">>}

\* projects a caller names: those of the index, one it does not hold, none
CallProjects == IndexProjects \cup {"bokeh", None}

\* a built index, the indexer constructed, no call running
QueryInit ==
  /\ indexer = "ready"
  /\ initResult = "ok"
  /\ corrupt = FALSE
  /\ store \in IndexContents
  /\ pc = [t \in Tasks |-> "idle"]
  /\ op = [t \in Tasks |-> NoOp]
  /\ loc = [t \in Tasks |-> NoLoc]
  /\ res = [t \in Tasks |-> NoRes]
  /\ backup = NoBackup
  /\ call = NoCall
  /\ out = NoOut

\* No call has been applied yet.  The calls below leave the store as it
\* is, so a second call meets the states the first one meets.
Fresh == call = NoCall

\* ensure_indexed returns at once: the count is read and is not 0
Indexed == is_indexed(store, "ok").value

ApplyReferenceGuide ==
  /\ Fresh
  /\ Indexed
  /\ \E component \in Components, project \in CallProjects, content \in BOOLEAN :
       \E r \in search_get_reference_guide(store, component, project, content) :
         /\ call' = [name |-> "search_get_reference_guide", component |-> component,
                     project |-> project, path |-> NoPath, content |-> content, n |-> 0]
         /\ out' = [status |-> r.status, pages |-> r.pages, names |-> <<>>]
  /\ UNCHANGED <<indexer, initResult, corrupt, store, pc, op, loc, res, backup>>

ApplyListProjects ==
  /\ Fresh
  /\ Indexed
  /\ \E r \in list_projects(store) :
       /\ call' = [name |-> "list_projects", component |-> <<>>,
                   project |-> None, path |-> NoPath, content |-> TRUE, n |-> 0]
       /\ out' = [status |-> r.status, pages |-> <<>>, names |-> r.names]
  /\ UNCHANGED <<indexer, initResult, corrupt, store, pc, op, loc, res, backup>>

ApplySearch ==
  /\ Fresh
  /\ Indexed
  /\ \E project \in CallProjects, content \in BOOLEAN, n \in 1..MaxResults :
       \E r \in search(store, project, content, n) :
         /\ call' = [name |-> "search", component |-> <<>>,
                     project |-> project, path |-> NoPath, content |-> content, n |-> n]
         /\ out' = [status |-> r.status, pages |-> r.pages, names |-> <<>>]
  /\ UNCHANGED <<indexer, initResult, corrupt, store, pc, op, loc, res, backup>>

ApplyGetPage ==
  /\ Fresh
  /\ Indexed
  /\ \E path \in IndexPaths, project \in CallProjects \ {None} :
       \E r \in get_page(store, path, project) :
         /\ call' = [name |-> "get_page", component |-> <<>>,
                     project |-> project, path |-> path, content |-> TRUE,
                     n |-> GetPageNResults]
         /\ out' = [status |-> r.status, pages |-> r.pages, names |-> <<>>]
  /\ UNCHANGED <<indexer, initResult, corrupt, store, pc, op, loc, res, backup>>

QueryNext ==
  \/ ApplyReferenceGuide
  \/ ApplyListProjects
  \/ ApplySearch
  \/ ApplyGetPage

QuerySpec == QueryInit /\ [][QueryNext]_vars

\* ================================================= paths and markdown text

RECURSIVE JoinParts(_)
\* str(Path(*parts)): the components with "/" between them
JoinParts(parts) ==
  IF parts = <<>> THEN <<>>
  ELSE IF Len(parts) = 1 THEN parts[1]
  ELSE parts[1] \o <<"/">> \o JoinParts(Tail(parts))

\* Path.suffix of a file name: from its last "." on, when that is not the
\* first character; <<>> when there is none
Suffix(name) ==
  LET dots == {i \in 2..Len(name) : name[i] = "."}
  IN  IF dots = {} THEN <<>>
      ELSE SubSeq(name, CHOOSE i \in dots : \A j \in dots : j <= i, Len(name))

\* the suffixes convert_path_to_url replaces by .html
HtmlSuffixes ==
  {<<".", "md">>, <<".", "ipynb">>, <<".", "rst">>, <<".", "txt">>}

\* convert_path_to_url with every component kept
convert_path_to_url_keeping_first(path, remove_first_part) ==
  LET parts == Parts(path)
      name == parts[Len(parts)]
  IN  IF Suffix(name) \in HtmlSuffixes
        THEN JoinParts(SubSeq(parts, 1, Len(parts) - 1)
                       \o <<SubSeq(name, 1, Len(name) - Len(Suffix(name)))
                            \o <<".", "html">>>>)
        ELSE JoinParts(parts)

\* convert_path_to_url: drop the first component if asked to, then replace
\* the suffix of the file name by .html when it is one of HtmlSuffixes
convert_path_to_url(path, remove_first_part) ==
  LET all == Parts(path)
      parts == IF remove_first_part /\ all # <<>> THEN Tail(all) ELSE all
  IN  IF parts = <<>> THEN <<>>
      ELSE LET name == parts[Len(parts)]
           IN  IF Suffix(name) \in HtmlSuffixes
                 THEN JoinParts(SubSeq(parts, 1, Len(parts) - 1)
                                \o <<SubSeq(name, 1, Len(name) - Len(Suffix(name)))
                                     \o <<".", "html">>>>)
                 ELSE JoinParts(parts)

\* the cut of _extract_description_from_markdown: [:200] and the > 200 test
DescriptionMaxLength == 200

\* lengths of the text lines of a document
TextLengths == {40, 170}

\* A line of markdown after strip(), by what the scanners look at: the
\* title "# ...", a heading "##..." or deeper, a fence "```", a rule "---",
\* a blank line or text of some length.
DescriptionLines ==
  [kind : {"title", "heading", "fence", "rule", "blank"}, len : {0}]
  \cup [kind : {"text"}, len : TextLengths]

RECURSIVE SeqsUpTo(_, _)
\* the sequences over S of length n or less
SeqsUpTo(S, n) ==
  IF n = 0 THEN {<<>>}
  ELSE LET shorter == SeqsUpTo(S, n - 1)
       IN  shorter \cup {Append(s, x) : s \in {t \in shorter : Len(t) = n - 1}, x \in S}

RECURSIVE JoinedLength(_, _)
\* len(" ".join(description_lines)) for the lines at the indices taken
JoinedLength(lines, taken) ==
  IF taken = <<>> THEN 0
  ELSE lines[Head(taken)].len
       + (IF Len(taken) > 1 THEN 1 ELSE 0)
       + JoinedLength(lines, Tail(taken))

RECURSIVE DescriptionScan(_, _, _, _)
\* the loop of _extract_description_from_markdown from line i on: the
\* indices of the lines it appends to description_lines
DescriptionScan(lines, i, found_title, taken) ==
  IF i > Len(lines) THEN taken
  ELSE LET line == lines[i] IN
    IF line.kind = "title" THEN DescriptionScan(lines, i + 1, TRUE, taken)
    ELSE IF found_title /\ line.kind # "blank" THEN
      IF line.kind \in {"heading", "fence", "rule"} THEN taken
      ELSE IF JoinedLength(lines, Append(taken, i)) > DescriptionMaxLength
        THEN Append(taken, i)
      ELSE DescriptionScan(lines, i + 1, found_title, Append(taken, i))
    ELSE DescriptionScan(lines, i + 1, found_title, taken)

\* _extract_description_from_markdown: the joined lines cut to 200
\* characters with "..." appended, or "" when no line was taken
extract_description_from_markdown(lines) ==
  LET taken == DescriptionScan(lines, 1, FALSE, <<>>)
      joined == JoinedLength(lines, taken)
  IN  [taken |-> taken,
       length |-> IF joined > DescriptionMaxLength THEN DescriptionMaxLength ELSE joined,
       cut |-> joined > DescriptionMaxLength,
       ellipsis |-> taken # <<>>]

\* ------------------------------------------------------------ the chunker

\* minChunkChars of chunkDocument
MinChunkChars == 100

\* A line of a document as the chunker sees it: a heading of level 1, 2 or
\* 3 by its leading "#"s, a fence line, or text; with its length.
ChunkLines ==
  [kind : {"h1", "h2", "h3", "fence"}, len : {10}]
  \cup [kind : {"text"}, len : {10, 120}]

RECURSIVE SectionStartsIgnoringFences(_, _, _)
\* the scan with every heading line of level 1 or 2 a start, fenced or not
SectionStartsIgnoringFences(lines, i, in_fence) ==
  IF i > Len(lines) THEN <<>>
  ELSE IF lines[i].kind \in {"h1", "h2"}
    THEN <<i>> \o SectionStartsIgnoringFences(lines, i + 1, in_fence)
  ELSE SectionStartsIgnoringFences(lines, i + 1, in_fence)

RECURSIVE SectionStarts(_, _, _)
\* the scan of chunkDocument from line i on: the indices of the heading
\* lines of level 1 or 2 met outside a fenced block
SectionStarts(lines, i, in_fence) ==
  IF i > Len(lines) THEN <<>>
  ELSE IF lines[i].kind = "fence" THEN SectionStarts(lines, i + 1, ~in_fence)
  ELSE IF lines[i].kind \in {"h1", "h2"} /\ ~in_fence
    THEN <<i>> \o SectionStarts(lines, i + 1, in_fence)
  ELSE SectionStarts(lines, i + 1, in_fence)

RECURSIVE RawLength(_, _, _)
\* the length of the text of lines first..last, newlines included
RawLength(lines, first, last) ==
  IF first > last THEN 0
  ELSE lines[first].len + (IF first < last THEN 1 ELSE 0)
       + RawLength(lines, first + 1, last)

\* the sections of a document: the preamble from line 1, then one section
\* from each start to the line before the next
Sections(lines) ==
  LET starts == SectionStarts(lines, 1, FALSE)
      bounds == <<1>> \o starts \o <<Len(lines) + 1>>
  IN  [k \in 1..(Len(starts) + 1) |->
         [start |-> bounds[k], stop |-> bounds[k + 1] - 1,
          preamble |-> k = 1,
          raw_len |-> RawLength(lines, bounds[k], bounds[k + 1] - 1)]]

RECURSIVE Kept(_, _)
\* the sections from k on that are not below minChunkChars
Kept(sections, k) ==
  IF k > Len(sections) THEN <<>>
  ELSE (IF sections[k].raw_len >= MinChunkChars THEN <<sections[k]>> ELSE <<>>)
       \o Kept(sections, k + 1)

\* chunkDocument without the rule that keeps one chunk of the whole
\* content when every section is dropped
chunk_document_dropping_all(doc) ==
  LET kept == Kept(Sections(doc.lines), 1)
  IN  [k \in 1..Len(kept) |->
         [id |-> <<doc.id, "chunk", k - 1>>, parent_id |-> doc.id,
          chunk_index |-> k - 1, start |-> kept[k].start,
          preamble |-> kept[k].preamble, raw_len |-> kept[k].raw_len]]

\* chunkDocument: one chunk per kept section, numbered from 0; one chunk
\* of the whole content when no section is kept
chunk_document(doc) ==
  LET kept == Kept(Sections(doc.lines), 1)
      chunks == IF kept = <<>>
                  THEN <<[start |-> 1, preamble |-> TRUE,
                          raw_len |-> RawLength(doc.lines, 1, Len(doc.lines))]>>
                  ELSE kept
  IN  [k \in 1..Len(chunks) |->
         [id |-> <<doc.id, "chunk", k - 1>>, parent_id |-> doc.id,
          chunk_index |-> k - 1, start |-> chunks[k].start,
          preamble |-> chunks[k].preamble, raw_len |-> chunks[k].raw_len]]

\* ------------------------------------------------------ their application

\* relative paths the path functions are applied to
TextPaths ==
  { <<"examples", "/", "reference", "/", "widgets", "/", "Button", ".", "ipynb">>,
    <<"doc", "/", "reference", "/", "Button", ".", "md">>,
    <<"doc", "/", "api", "/", "a", ".", "b", ".", "rst">>,
    <<"doc", "/", "how_to", "/", "notes", ".", "txt">>,
    <<"doc", "/", "script", ".", "py">>,
    <<"index", ".", "md">>,
    <<"LICENSE">> }

\* reference patterns a repository can be configured with
PatternSets ==
  SUBSET (ReferencePatterns("panel") \cup {<<"doc", "/", "api", "/", "*", ".", "rst">>})

\* ids of the documents handed to the chunker
ChunkDocIds == {"panel___doc___index_md", "hvplot___doc___index_md"}

\* no indexer, no store: the functions below use neither
TextInit ==
  /\ indexer = None
  /\ initResult = "none"
  /\ corrupt = FALSE
  /\ store = {}
  /\ pc = [t \in Tasks |-> "idle"]
  /\ op = [t \in Tasks |-> NoOp]
  /\ loc = [t \in Tasks |-> NoLoc]
  /\ res = [t \in Tasks |-> NoRes]
  /\ backup = NoBackup
  /\ call = NoCall
  /\ out = NoOut

ApplyConvertPathToUrl ==
  /\ Fresh
  /\ \E path \in TextPaths, remove_first_part \in BOOLEAN :
       /\ call' = [name |-> "convert_path_to_url", path |-> path,
                   remove_first_part |-> remove_first_part]
       /\ out' = [url |-> convert_path_to_url(path, remove_first_part)]
  /\ UNCHANGED <<indexer, initResult, corrupt, store, pc, op, loc, res, backup>>

ApplyIsReferenceDocument ==
  /\ Fresh
  /\ \E path \in TextPaths, patterns \in PatternSets :
       /\ call' = [name |-> "_is_reference_document", path |-> path,
                   patterns |-> patterns]
       /\ out' = [value |-> is_reference_document(path, patterns)]
  /\ UNCHANGED <<indexer, initResult, corrupt, store, pc, op, loc, res, backup>>

ApplyExtractDescription ==
  /\ Fresh
  /\ \E lines \in SeqsUpTo(DescriptionLines, MaxLines) :
       /\ call' = [name |-> "_extract_description_from_markdown", lines |-> lines]
       /\ out' = extract_description_from_markdown(lines)
  /\ UNCHANGED <<indexer, initResult, corrupt, store, pc, op, loc, res, backup>>

ApplyChunkDocument ==
  /\ Fresh
  /\ \E id \in ChunkDocIds, lines \in SeqsUpTo(ChunkLines, MaxLines) :
       /\ call' = [name |-> "chunk_document", doc |-> [id |-> id, lines |-> lines]]
       /\ out' = [chunks |-> chunk_document([id |-> id, lines |-> lines])]
  /\ UNCHANGED <<indexer, initResult, corrupt, store, pc, op, loc, res, backup>>

TextNext ==
  \/ ApplyConvertPathToUrl
  \/ ApplyIsReferenceDocument
  \/ ApplyExtractDescription
  \/ ApplyChunkDocument

TextSpec == TextInit /\ [][TextNext]_vars

\* ================================================================ claims

\* task t took a step
Moved(t) == pc'[t] # pc[t] \/ loc'[t] # loc[t]

\* task t ends a call in this step
Ends(t) == pc[t] # "done" /\ pc'[t] = "done"

\* an index_documentation() run of task t that is one step long ends
EndsAtomicRebuild(t) ==
  /\ pc[t] \in {"idle", "ensure_wait"}
  /\ pc'[t] = "done"
  /\ res'[t].rebuild # "none"

\* task t is inside a rebuild that runs in steps
InRebuild(t) == pc[t] \in {"ingest", "clear", "add"}

ReadNames == {"search_pages", "get_page"}

EnsureNames == ReadNames \cup {"ensure_indexed"}

\* C1: when the bulk add of index_documentation raises after the clear, the
\* store holds after the call exactly the entries (ids and contents) it
\* held before the rebuild started.  Stated for the runs of
\* index_documentation that are one step long, where the state before the
\* step is the state before the rebuild.
C1_RestoredAfterFailedAdd ==
  [][\A t \in Tasks :
       (EndsAtomicRebuild(t) /\ res'[t].rebuild = "add_failed") => store' = store]_vars

\* C2: constructing the indexer over a corrupt store does not raise: the
\* store is wiped and reinitialised, and afterwards the indexer is there
\* and the collection is empty.
C2_ConstructOverCorruptStore ==
  [][(indexer = None /\ corrupt /\ initResult' \notin {initResult, "interrupt"})
       => (initResult' = "ok" /\ indexer' = "ready" /\ ~corrupt' /\ store' = {})]_vars

\* two documents of the batch carry one id
Collides(docs) == \E d \in docs : \E e \in docs \ {d} : e.id = d.id

\* C3: a batch with two documents of one id makes index_documentation
\* abort with an error before its clear phase: a batch with a duplicate id
\* never reaches the clear or the add, the call ends with the collision
\* error, and no step of the call up to and including the abort changes
\* the store.
C3_DuplicateIdsAbortBeforeClear ==
  /\ [](\A t \in Tasks :
          /\ pc[t] \in {"clear", "add"} => ~Collides(loc[t].batch)
          /\ (pc[t] = "done" /\ res[t].rebuild # "none" /\ Collides(loc[t].batch))
               => (res[t].rebuild = "dup_ids" /\ res[t].status = "error"))
  /\ [][\A t \in Tasks :
          (Moved(t) /\ (pc'[t] = "ingest"
                         \/ (pc'[t] = "done" /\ res'[t].rebuild = "dup_ids")))
            => store' = store]_vars

\* C3 witness: a call has aborted on a duplicate id over a collection that
\* holds entries.
C3_Witness ==
  \E t \in Tasks :
    pc[t] = "done" /\ res[t].rebuild = "dup_ids" /\ store # {}

C5_ReadNeverInsideDestructivePhase ==
  [][\A t \in Tasks :
       (Ends(t) /\ op'[t].name \in ReadNames /\ res'[t].status = "ok")
         => \A u \in Tasks \ {t} : pc[u] # "add"]_vars

\* C6: at most one index_documentation is between its start and its end:
\* no rebuild starts, and none runs as a whole, while another task is
\* inside a rebuild.
C6_RebuildsAreSerialised ==
  [][\A t \in Tasks :
       ((pc[t] = "idle" /\ pc'[t] = "ingest") \/ EndsAtomicRebuild(t))
         => \A u \in Tasks \ {t} : ~InRebuild(u)]_vars

\* C7: no two pages returned by one search_pages call share a path.
C7_SearchPathsUnique ==
  \A t \in Tasks :
    (pc[t] = "done" /\ op[t].name = "search_pages")
      => \A i, j \in DOMAIN res[t].pages :
           i # j => res[t].pages[i].path # res[t].pages[j].path

\* the entries of the collection with this project and this path
Exact(project, path) ==
  {d \in store : d.project = project /\ d.path = path}

\* C8: a get_page whose lookup ran returns the one entry whose project
\* and path equal the arguments, and only when there is exactly one; it
\* raises not-found exactly when no entry has them and ambiguous exactly
\* when more than one has.
C8_GetPageExact ==
  \A t \in Tasks :
    (pc[t] = "done" /\ op[t].name = "get_page"
       /\ res[t].status \in {"ok", "not_found", "ambiguous"})
      => LET m == Exact(op[t].project, op[t].path) IN
         /\ res[t].status = "ok" <=> Cardinality(m) = 1
         /\ res[t].status = "not_found" <=> m = {}
         /\ res[t].status = "ambiguous" <=> Cardinality(m) > 1
         /\ res[t].status = "ok" =>
              /\ Len(res[t].pages) = 1
              /\ res[t].pages[1].project = op[t].project
              /\ res[t].pages[1].path = op[t].path
              /\ \E d \in m : res[t].pages[1].content = d.content

\* C8 witness: get_page has found its page in an index of several entries,
\* one of them with the same path in another project.
C8_Witness ==
  \E t \in Tasks :
    /\ pc[t] = "done" /\ op[t].name = "get_page" /\ res[t].status = "ok"
    /\ \E d \in store : d.path = op[t].path /\ d.project # op[t].project

C10_IsIndexedNeverPropagates ==
  \A t \in Tasks :
    /\ res[t].indexed # "raised"
    /\ res[t].indexed = "true" => Cardinality(store) > 0

\* C11: an interrupt raised while the store is opened during construction
\* propagates to the caller: no indexer comes out of the constructor, and
\* the step neither wipes the store nor repairs it.
C11_InterruptPropagates ==
  /\ [](initResult = "interrupt" => indexer = None)
  /\ [][(indexer = None /\ initResult' = "interrupt")
          => (indexer' = None /\ store' = store /\ corrupt' = corrupt)]_vars

\* C11 witness: the interrupt came while a corrupt store that holds an
\* index was opened.
C11_Witness ==
  initResult = "interrupt" /\ indexer = None /\ corrupt /\ store # {}

\* C12: every run of index_documentation that reaches its write phase has
\* copied the store to {store_dir}.bak before its first delete or add: when
\* the clear starts the backup holds the store as it is, and after a
\* successful rebuild the backup is in place and holds the store as it was
\* before the rebuild.
C12_BackupBeforeWrite ==
  [][\A t \in Tasks :
       /\ (pc[t] = "clear" /\ pc'[t] # "clear")
            => (backup.exists /\ backup.entries = store)
       /\ (EndsAtomicRebuild(t) /\ res'[t].rebuild = "ok")
            => (backup'.exists /\ backup'.entries = store)
       /\ (Ends(t) /\ res'[t].rebuild = "ok") => backup'.exists]_vars

\* C13: a full reindex replaces the index wholesale: after
\* index_documentation has succeeded on a batch that is not empty, the
\* store holds the documents of that batch and nothing else, its ids are
\* the ids of the batch, and no id is stored twice.
C13_ReindexReplacesWholesale ==
  \A t \in Tasks :
    (pc[t] = "done" /\ res[t].rebuild = "ok")
      => /\ loc[t].batch # {}
         /\ Ids(store) = Ids(loc[t].batch)
         /\ store = loc[t].batch
         /\ \A d \in store : \A e \in store : e.id = d.id => e = d

\* C13 witness: a rebuild of several documents from both repositories has
\* succeeded.
C13_Witness ==
  \E t \in Tasks :
    /\ pc[t] = "done" /\ res[t].rebuild = "ok"
    /\ Cardinality(store) > 2
    /\ {d.project : d \in store} = Projects

NoReference ==
  ~\E d \in store :
      /\ d.is_reference
      /\ d.path_stem = call.component
      /\ (call.project = None \/ d.project = call.project)

\* C15: when no indexed document matches the component,
\* search_get_reference_guide returns the empty list and raises nothing
\* (its store query having run); the not-found error comes from get_page
\* only.
C15_ReferenceGuideNoMatchIsEmpty ==
  /\ (call.name = "search_get_reference_guide" /\ NoReference
        /\ out.status # "query_failed")
       => (out.status = "ok" /\ out.pages = <<>>)
  /\ out.status = "not_found" => call.name = "get_page"

\* C15 witness: the reference guide of the empty component name, asked of
\* an index that holds reference pages, came back empty.
C15_Witness ==
  /\ call.name = "search_get_reference_guide"
  /\ call.component = <<>>
  /\ out.status = "ok" /\ out.pages = <<>>
  /\ \E d \in store : d.is_reference

\* C16: list_projects returns, sorted and without duplicates, exactly the
\* project values of the stored metadata, each as it is stored.
C16_ListProjectsExact ==
  (call.name = "list_projects" /\ out.names # <<>>)
    => /\ {out.names[i] : i \in DOMAIN out.names} = {d.project : d \in store}
       /\ \A i, j \in DOMAIN out.names :
            i < j => Rank(out.names[i]) < Rank(out.names[j])

\* C17: the pages of one search call are ordered by non-increasing
\* relevance_score, whatever order the store returns its candidates in.
C17_SearchOrderedByRelevance ==
  call.name = "search"
    => \A i, j \in DOMAIN out.pages :
         i < j => out.pages[i].relevance_score >= out.pages[j].relevance_score

\* C18: round trip between the two retrieval paths: for every indexed
\* document, the content get_page(path, project) returns is the content a
\* search with content returns for that document.
C18_RoundTrip ==
  /\ (call.name = "search" /\ call.content)
       => \A i \in DOMAIN out.pages :
            \A g \in get_page(store, out.pages[i].path, out.pages[i].project) :
              g.status = "ok" => g.pages[1].content = out.pages[i].content
  /\ (call.name = "get_page" /\ out.status = "ok")
       => \A n \in 1..MaxResults : \A pr \in {None, call.project} :
            \A r \in search(store, pr, TRUE, n) :
              \A i \in DOMAIN r.pages :
                (r.pages[i].project = call.project /\ r.pages[i].path = call.path)
                  => r.pages[i].content = out.pages[1].content

\* C18 witness: a search with content has returned two pages of different
\* content, and get_page finds the first of them.
C18_Witness ==
  /\ call.name = "search" /\ call.content
  /\ Len(out.pages) = 2
  /\ out.pages[1].content # out.pages[2].content
  /\ \E g \in get_page(store, out.pages[1].path, out.pages[1].project) :
       g.status = "ok"

\* C19: two documents that differ in project or in relative path have
\* different ids, so an ingestion of distinct files never ends in the
\* duplicate-id abort.
C19_IdsDistinctForDistinctSources ==
  \A t \in Tasks :
    /\ \A d \in loc[t].batch : \A e \in loc[t].batch :
         (d.project # e.project \/ d.path # e.path) => d.id # e.id
    /\ res[t].rebuild # "dup_ids"

\* C20: the error index_documentation aborts with on an id collision names
\* both documents, by project and path, of every colliding pair of the
\* batch.
C20_CollisionErrorNamesBothDocuments ==
  \A t \in Tasks :
    (pc[t] = "done" /\ res[t].rebuild = "dup_ids")
      => \A d \in loc[t].batch : \A e \in loc[t].batch \ {d} :
           e.id = d.id =>
             {[project |-> d.project, path |-> d.path],
              [project |-> e.project, path |-> e.path]}
               \subseteq validate_unique_ids_error(loc[t].batch).named

\* C21: when search is called with a project filter, every returned page
\* has that project, and for a project with no indexed document the result
\* is the empty list.
C21_SearchProjectFilter ==
  (call.name = "search" /\ call.project # None)
    => /\ \A i \in DOMAIN out.pages : out.pages[i].project = call.project
       /\ (out.status = "ok" /\ ~\E d \in store : d.project = call.project)
            => out.pages = <<>>

\* C21 witness: a search filtered by a project has returned a page from an
\* index that holds a document of another project as well.
C21_Witness ==
  /\ call.name = "search" /\ call.project # None
  /\ Len(out.pages) > 0
  /\ \E d \in store : d.project # call.project

C28_EmptyIngestionLeavesStore ==
  /\ [](\A t \in Tasks :
          (pc[t] = "done" /\ res[t].rebuild # "none" /\ loc[t].batch = {})
            => (res[t].rebuild = "no_docs" /\ res[t].status # "error"))
  /\ [][\A t \in Tasks :
          (Ends(t) /\ res'[t].rebuild = "no_docs")
            => (store' = store /\ loc'[t].batch = {})]_vars

\* C28 witness: a run in which every clone failed has returned and the
\* index built before is still in the store.
C28_Witness ==
  \E t \in Tasks :
    /\ pc[t] = "done" /\ res[t].rebuild = "no_docs"
    /\ loc[t].failed = Projects /\ store # {}

\* C29 as stated: once the store is populated, is_indexed() is true and a
\* later ensure_indexed performs no rebuild.
C29_PopulatedStoreIsIndexed ==
  [][\A t \in Tasks :
       (pc[t] = "idle" /\ Moved(t) /\ op'[t].name \in EnsureNames /\ store # {})
         => (res'[t].indexed = "true" /\ res'[t].rebuild = "none")]_vars

\* C29 amended: after ensure_indexed has returned normally from a run that
\* ingested a document, the store is not empty and is_indexed() is true
\* whenever count() can be read; a later ensure_indexed on such a store
\* rebuilds only when is_indexed() returned false, that is when its count()
\* failed.
C29_EnsureIndexedIdempotent ==
  /\ [](\A t \in Tasks :
          (pc[t] = "done" /\ op[t].name \in EnsureNames /\ res[t].rebuild = "ok")
            => /\ store # {}
               /\ is_indexed(store, "ok").value
               /\ ~is_indexed(store, "ok").raised)
  /\ [][\A t \in Tasks :
          (pc[t] = "idle" /\ Ends(t) /\ op'[t].name \in EnsureNames
             /\ store # {} /\ res'[t].indexed = "true")
            => (res'[t].rebuild = "none" /\ store' = store)]_vars

\* C29 witness: ensure_indexed has built an index of one document and
\* returned normally.
C29_Witness ==
  \E t \in Tasks :
    /\ pc[t] = "done" /\ op[t].name = "ensure_indexed"
    /\ res[t].rebuild = "ok" /\ res[t].status = "ok"
    /\ Cardinality(store) = 1

\* C30 as stated: on an indexed store no failure of the store query leaves
\* search_pages.
C30_SearchNeverRaisesOnIndexedStore ==
  \A t \in Tasks :
    (pc[t] = "done" /\ op[t].name = "search_pages" /\ res[t].indexed = "true")
      => res[t].status = "ok"

\* C30 amended: on an indexed store, a store query that raises an
\* Exception is not propagated: search_pages returns the empty list and
\* leaves the store unchanged; what leaves search_pages is a BaseException
\* of the store (from the query or from count()) or the failure of the
\* on-demand build.
C30_SearchAbsorbsQueryException ==
  /\ [](\A t \in Tasks :
          (pc[t] = "done" /\ op[t].name = "search_pages")
            => /\ res[t].status \in {"ok", "panic", "error"}
               /\ res[t].status = "error"
                    => res[t].rebuild \notin {"none", "ok", "no_docs"}
               /\ res[t].indexed = "true"
                    => (res[t].status \in {"ok", "panic"} /\ res[t].rebuild = "none"))
  /\ [][\A t \in Tasks :
          (Ends(t) /\ op'[t].name = "search_pages" /\ res'[t].indexed = "true")
            => store' = store]_vars

\* C30 witness: an unfiltered search on an indexed store has returned the
\* empty list, which only a failed query gives.
C30_Witness ==
  \E t \in Tasks :
    /\ pc[t] = "done" /\ op[t].name = "search_pages" /\ op[t].project = None
    /\ res[t].indexed = "true" /\ res[t].status = "ok"
    /\ res[t].pages = <<>> /\ store # {}

\* the number of fence lines before line i
FencesBefore(lines, i) ==
  Cardinality({j \in 1..(i - 1) : lines[j].kind = "fence"})

\* line i is a heading of level 1 or 2 outside every fenced block
TopHeading(lines, i) ==
  /\ lines[i].kind \in {"h1", "h2"}
  /\ FencesBefore(lines, i) % 2 = 0

\* C22: a document with no heading of level 1 or 2 outside a fenced block,
\* the empty document included, gives exactly one chunk, with chunk_index 0
\* and the document's id as parent_id.
C22_NoHeadingOneChunk ==
  (call.name = "chunk_document"
   /\ \A i \in DOMAIN call.doc.lines : ~TopHeading(call.doc.lines, i))
    => /\ Len(out.chunks) = 1
       /\ out.chunks[1].chunk_index = 0
       /\ out.chunks[1].parent_id = call.doc.id

C22_Witness ==
  /\ call.name = "chunk_document"
  /\ \E i \in DOMAIN call.doc.lines : call.doc.lines[i].kind = "h3"
  /\ \A i \in DOMAIN call.doc.lines : ~TopHeading(call.doc.lines, i)
  /\ Len(out.chunks) = 1
  /\ out.chunks[1].chunk_index = 0

\* C23: every chunk starts at the first line of the document or at a
\* heading line of level 1 or 2 outside every fenced block, and no two
\* chunks start at one line: a "#" line inside a fence and a heading of
\* level 3 start no chunk.
C23_ChunksStartAtTopHeadings ==
  call.name = "chunk_document"
    => /\ \A k \in DOMAIN out.chunks :
            \/ out.chunks[k].start = 1
            \/ TopHeading(call.doc.lines, out.chunks[k].start)
       /\ \A k, m \in DOMAIN out.chunks :
            k < m => out.chunks[k].start < out.chunks[m].start

C23_Witness ==
  /\ call.name = "chunk_document"
  /\ \E i \in DOMAIN call.doc.lines :
       /\ call.doc.lines[i].kind \in {"h1", "h2"}
       /\ FencesBefore(call.doc.lines, i) % 2 = 1
       /\ \E k \in DOMAIN out.chunks :
            /\ out.chunks[k].start > i
            /\ TopHeading(call.doc.lines, out.chunks[k].start)

\* the file name ends in one of the suffixes .md, .ipynb, .rst, .txt
HasDocSuffix(name) ==
  /\ Len(name) >= 3
  /\ name[Len(name) - 1] = "."
  /\ name[Len(name)] \in {"md", "ipynb", "rst", "txt"}

\* C24: with the default transform the url has the components of the path
\* but the first, in order, the last one with .html in place of .md,
\* .ipynb, .rst or .txt; examples/reference/widgets/Button.ipynb gives
\* reference/widgets/Button.html.
C24_ConvertPathToUrl ==
  (call.name = "convert_path_to_url" /\ call.remove_first_part)
    => LET given == Parts(call.path)
           url == Parts(out.url)
       IN  /\ Len(url) = Len(given) - 1
           /\ \A k \in 1..(Len(url) - 1) : url[k] = given[k + 1]
           /\ Len(url) > 0 =>
                LET name == given[Len(given)]
                IN  url[Len(url)] =
                      IF HasDocSuffix(name)
                        THEN SubSeq(name, 1, Len(name) - 1) \o <<"html">>
                        ELSE name
           /\ call.path = <<"examples", "/", "reference", "/", "widgets", "/",
                            "Button", ".", "ipynb">>
                => out.url = <<"reference", "/", "widgets", "/", "Button", ".", "html">>

C24_Witness ==
  /\ call.name = "convert_path_to_url"
  /\ call.remove_first_part
  /\ call.path = <<"examples", "/", "reference", "/", "widgets", "/",
                   "Button", ".", "ipynb">>
  /\ out.url = <<"reference", "/", "widgets", "/", "Button", ".", "html">>

\* C25: _is_reference_document is true exactly when a configured pattern
\* matches the relative path or, with no pattern configured, when the path
\* has a component named reference; with patterns configured and none
\* matching it is false.
C25_HeuristicOnlyWithoutPatterns ==
  call.name = "_is_reference_document"
    => (out.value <=>
          IF call.patterns = {}
            THEN \E i \in DOMAIN Parts(call.path) :
                   Parts(call.path)[i] = <<"reference">>
            ELSE \E pattern \in call.patterns : PathMatch(call.path, pattern))

\* C26: the description is no longer than the maximum length and ends
\* with an ellipsis exactly when it was cut.
C26_EllipsisOnlyWhenCut ==
  call.name = "_extract_description_from_markdown"
    => /\ out.length <= DescriptionMaxLength
       /\ out.ellipsis <=> out.cut

====
